---- MODULE Spec2Model ----
(***************************************************************************)
(* TPOT TAR-PIT WATCH v0.6.7 (tarpit_watch.py): the session tracking and   *)
(* persistent history engine.                                              *)
(*                                                                         *)
(* Time is counted in ticks of 1/TicksPerSec seconds, so the flooring of   *)
(* a duration to whole seconds is visible.  time.time() is read as a       *)
(* clock that advances between two ticks of the loop.                      *)
(***************************************************************************)
EXTENDS Integers, Sequences, FiniteSets, TLC

VARIABLES
    pc,             \* position of the process: boot, loop, autosave, input, final, done, crashed
    now,            \* the clock (ticks); the value of `now` of the current tick
    args,           \* argparse.Namespace: grace, history_n, autosave
    file,           \* ~/.tarpit_watch_stats.json
    tmpfile,        \* ~/.tarpit_watch_stats.json.tmp
    stats,          \* App.stats, the in-memory stats document
    sessions,       \* App.sessions: key -> Session
    port_hits_run,  \* App.port_hits_run: int port -> count
    seen_keys,      \* update_sessions: keys observed in the last pass
    ended,          \* update_sessions: sessions finalized in the last pass
    port_map,       \* App.docker.port_map: host port -> container name
    hide_private,   \* App.hide_private
    hide_admin,     \* App.hide_admin
    mode,           \* App.mode: "ALL" or "EST"
    theme_idx,      \* App.theme_idx
    last_autosave,  \* App.last_autosave
    last_action,    \* App.last_action, the status line
    stop,           \* App._stop
    io,             \* what the last step did to the stats file
    inserted,       \* history: durations of every ended record ever put in the archive
    ct_rows,        \* update_sessions: rows, what read_conntrack_tcp returned to the last pass
    watched_ports,  \* run: watched_ports of the last tick
    view            \* run: what compute_views returned to the last tick

vars == <<pc, now, args, file, tmpfile, stats, sessions, port_hits_run, seen_keys,
          ended, port_map, hide_private, hide_admin, mode, theme_idx,
          last_autosave, last_action, stop, io, inserted, ct_rows, watched_ports, view>>

-----------------------------------------------------------------------------
(* Bounds of the model *)

TicksPerSec == 2
MaxNow == 5
MaxStep == 2
MaxRows == 2

(* Program constants *)

VERSION == "0.6.7"
DEFAULT_GRACE_S == 8
DEFAULT_POLL_S == 1
DEFAULT_TOPN == 10
DEFAULT_EXCLUDE_ADMIN_PORTS == {64295, 64294, 64297}
THEMES == <<"amber", "matrix", "ocean">>

Min(a, b) == IF a <= b THEN a ELSE b
Max(a, b) == IF a >= b THEN a ELSE b

-----------------------------------------------------------------------------
(* Dictionaries: a dict is a function whose DOMAIN is its key set *)

EmptyDict == [k \in {} |-> 0]
DictGet(d, k, dflt) == IF k \in DOMAIN d THEN d[k] ELSE dflt
DictPut(d, k, v) == (k :> v) @@ d
DictSetDefault(d, k, v) == d @@ (k :> v)

(* str(dport) and the int keys of port_hits_run: a key is a port number    *)
(* tagged with its Python type, so "22" and 22 are different keys.         *)
IntKey(p) == [t |-> "int", v |-> p]
StrOf(p) == [t |-> "str", v |-> p]

-----------------------------------------------------------------------------
(* Addresses are the four octets of the dotted quad *)

PUB == <<203, 0, 113, 9>>
PRIV == <<10, 0, 0, 5>>
PUB2 == <<198, 51, 100, 7>>
HOST == <<192, 0, 2, 1>>

_is_private_ipv4(ip) ==
    \/ ip[1] = 10
    \/ ip[1] = 192 /\ ip[2] = 168
    \/ ip[1] = 127
    \/ ip[1] = 169 /\ ip[2] = 254
    \/ ip[1] = 172 /\ 16 <= ip[2] /\ ip[2] <= 31

(* A row of read_conntrack_tcp (original direction only) *)
Row(src, sport, dport, state, timeout) ==
    [src |-> src, sport |-> sport, dst |-> HOST, dport |-> dport,
     state |-> state, timeout |-> timeout]

FlowKey(r) == <<r.src, r.sport, r.dst, r.dport>>

-----------------------------------------------------------------------------
(* App.sessions is a dict, which keeps insertion order: a sequence of      *)
(* Session records with pairwise different keys.                           *)

Range(f) == {f[i] : i \in DOMAIN f}
SessionKeys(ss) == {ss[i].key : i \in DOMAIN ss}

Session(r, t) ==
    [key |-> FlowKey(r), src_ip |-> r.src, src_port |-> r.sport, dst_ip |-> r.dst,
     dst_port |-> r.dport, state |-> r.state, timeout_s |-> r.timeout,
     first_seen |-> t, last_seen |-> t]

(* Session.age_s *)
age_s(s, t) == Max(0, t - s.first_seen)

(* update_sessions, lines 760-773: the filters of one row *)
DiscardedUnwatched(r, watched, hp, ha, md) == r.dport \notin watched
Discarded(r, watched, hp, ha, md) ==
    \/ r.dport \notin watched
    \/ hp /\ _is_private_ipv4(r.src)
    \/ ha /\ r.dport \in DEFAULT_EXCLUDE_ADMIN_PORTS
    \/ md = "EST" /\ r.state # "ESTABLISHED"

(* line 780: key not in self.sessions *)
UntrackedAlways(key, ss) == TRUE
Untracked(key, ss) == key \notin SessionKeys(ss)

(* line 795: the key of the lifetime counter is str(dport) *)
LphKeyInt(dport) == IntKey(dport)
LphKey(dport) == StrOf(dport)

(* lines 793 and 795: d[k] = d.get(k, 0) + 1 *)
CountFromOne(d, k) == DictPut(d, k, 1)
CountUp(d, k) == DictPut(d, k, DictGet(d, k, 0) + 1)

(* lines 798-801: the in-place update of a tracked session *)
RefreshRestartsAfterGap(ss, r, t) ==
    [i \in DOMAIN ss |->
        IF ss[i].key = FlowKey(r)
        THEN [ss[i] EXCEPT !.state = r.state, !.timeout_s = r.timeout, !.last_seen = t,
                           !.first_seen = IF ss[i].last_seen < t - 1 THEN t ELSE @]
        ELSE ss[i]]
RefreshSkipped(ss, r, t) == ss
RefreshReplaces(ss, r, t) ==
    [i \in DOMAIN ss |-> IF ss[i].key = FlowKey(r) THEN Session(r, t) ELSE ss[i]]
Refresh(ss, r, t) ==
    [i \in DOMAIN ss |->
        IF ss[i].key = FlowKey(r)
        THEN [ss[i] EXCEPT !.state = r.state, !.timeout_s = r.timeout, !.last_seen = t]
        ELSE ss[i]]

(* lines 759-801: the body of the loop over rows, for one row.  acc holds  *)
(* self.sessions, self.port_hits_run, stats["lifetime_port_hits"] and the  *)
(* local seen_keys.                                                        *)
RowStepKeepsTracked(acc, r, watched, hp, ha, md, t) ==
    IF Discarded(r, watched, hp, ha, md) /\ Untracked(FlowKey(r), acc.sessions) THEN acc
    ELSE LET key == FlowKey(r)
             seen == acc.seen \cup {key}
         IN  IF Untracked(key, acc.sessions)
             THEN [sessions |-> Append(SelectSeq(acc.sessions, LAMBDA s : s.key # key),
                                       Session(r, t)),
                   run |-> CountUp(acc.run, IntKey(r.dport)),
                   lph |-> CountUp(acc.lph, LphKey(r.dport)),
                   seen |-> seen]
             ELSE [acc EXCEPT !.sessions = Refresh(acc.sessions, r, t), !.seen = seen]
RowStepLifetimeOnly(acc, r, watched, hp, ha, md, t) ==
    IF Discarded(r, watched, hp, ha, md) THEN acc
    ELSE LET key == FlowKey(r)
             seen == acc.seen \cup {key}
         IN  IF Untracked(key, acc.sessions)
             THEN [sessions |-> Append(SelectSeq(acc.sessions, LAMBDA s : s.key # key),
                                       Session(r, t)),
                   run |-> acc.run,
                   lph |-> CountUp(acc.lph, LphKey(r.dport)),
                   seen |-> seen]
             ELSE [acc EXCEPT !.sessions = Refresh(acc.sessions, r, t), !.seen = seen]
RowStep(acc, r, watched, hp, ha, md, t) ==
    IF Discarded(r, watched, hp, ha, md) THEN acc
    ELSE LET key == FlowKey(r)
             seen == acc.seen \cup {key}
         IN  IF Untracked(key, acc.sessions)
             THEN [sessions |-> Append(SelectSeq(acc.sessions, LAMBDA s : s.key # key),
                                       Session(r, t)),
                   run |-> CountUp(acc.run, IntKey(r.dport)),
                   lph |-> CountUp(acc.lph, LphKey(r.dport)),
                   seen |-> seen]
             ELSE [acc EXCEPT !.sessions = Refresh(acc.sessions, r, t), !.seen = seen]

RECURSIVE RowLoop(_, _, _, _, _, _, _)
RowLoop(acc, rows, watched, hp, ha, md, t) ==
    IF rows = <<>> THEN acc
    ELSE RowLoop(RowStep(acc, Head(rows), watched, hp, ha, md, t), Tail(rows),
                 watched, hp, ha, md, t)

(* lines 806-811: the test that ends a session *)
ExpiredByAge(s, seen, t, grace) == s.key \notin seen /\ (t - s.first_seen) >= grace
ExpiredUnseen(s, seen, t, grace) == s.key \notin seen
ExpiredStrict(s, seen, t, grace) == s.key \notin seen /\ (t - s.last_seen) > grace
ExpiredEarly(s, seen, t, grace) == s.key \notin seen /\ (t - s.last_seen) >= grace - 1
Expired(s, seen, t, grace) == s.key \notin seen /\ (t - s.last_seen) >= grace

(* App.container_for_port *)
container_for_port(pm, port) ==
    IF port \in DOMAIN pm /\ pm[port] # "" THEN pm[port] ELSE "unmapped"

(* lines 816-827: the ended record of a session; int() floors the float    *)
EndedRecordRounded(s, pm, t) ==
    [ended_ts |-> t, src |-> s.src_ip, sport |-> s.src_port, dst |-> s.dst_ip,
     dport |-> s.dst_port, state |-> s.state,
     duration_s |-> (Max(0, s.last_seen - s.first_seen) + 1) \div TicksPerSec,
     container |-> container_for_port(pm, s.dst_port)]
EndedRecordByAge(s, pm, t) ==
    [ended_ts |-> t, src |-> s.src_ip, sport |-> s.src_port, dst |-> s.dst_ip,
     dport |-> s.dst_port, state |-> s.state,
     duration_s |-> Max(0, t - s.first_seen) \div TicksPerSec,
     container |-> container_for_port(pm, s.dst_port)]
EndedRecord(s, pm, t) ==
    [ended_ts |-> t, src |-> s.src_ip, sport |-> s.src_port, dst |-> s.dst_ip,
     dport |-> s.dst_port, state |-> s.state,
     duration_s |-> Max(0, s.last_seen - s.first_seen) \div TicksPerSec,
     container |-> container_for_port(pm, s.dst_port)]

(* x.get("duration_s", 0), the sort key *)
DurKey(x) == IF "duration_s" \in DOMAIN x THEN x.duration_s ELSE 0

(* list.sort(key=..., reverse=True) is stable: equal keys keep their order *)
InsertDescFirst(sorted, x) ==
    LET n == Cardinality({i \in DOMAIN sorted : DurKey(sorted[i]) > DurKey(x)})
    IN  SubSeq(sorted, 1, n) \o <<x>> \o SubSeq(sorted, n + 1, Len(sorted))
InsertDesc(sorted, x) ==
    LET n == Cardinality({i \in DOMAIN sorted : DurKey(sorted[i]) >= DurKey(x)})
    IN  SubSeq(sorted, 1, n) \o <<x>> \o SubSeq(sorted, n + 1, Len(sorted))

RECURSIVE SortDescFrom(_, _)
SortDescFrom(sorted, rest) ==
    IF rest = <<>> THEN sorted
    ELSE SortDescFrom(InsertDesc(sorted, Head(rest)), Tail(rest))

SortDesc(h) == SortDescFrom(<<>>, h)

(* lst[:n], also for n < 0 *)
SliceTo(lst, n) ==
    IF n >= 0 THEN SubSeq(lst, 1, Min(n, Len(lst)))
    ELSE SubSeq(lst, 1, Max(0, Len(lst) + n))

MapSeq(s, F(_)) == [i \in DOMAIN s |-> F(s[i])]

(* lines 814-831: ended sessions into the history, sort, keep top N *)
KeepTop(h, n) == SliceTo(h, n)
RecordEndedRestated(hist, end, pm, t, history_n) ==
    KeepTop(SortDesc(MapSeq(hist \o MapSeq(end, LAMBDA s : EndedRecord(s, pm, t)),
                            LAMBDA x : [x EXCEPT !.state = "CLOSE"])), history_n)
RecordEnded(hist, end, pm, t, history_n) ==
    KeepTop(SortDesc(hist \o MapSeq(end, LAMBDA s : EndedRecord(s, pm, t))), history_n)

(* App.update_sessions: the state after the pass *)
update_sessions(ss, run, st, pm, rows, watched, hp, ha, md, t, a) ==
    LET acc == RowLoop([sessions |-> ss, run |-> run,
                        lph |-> DictGet(st, "lifetime_port_hits", EmptyDict),
                        seen |-> {}],
                       rows, watched, hp, ha, md, t)
        end == SelectSeq(acc.sessions, LAMBDA s : Expired(s, acc.seen, t, a.grace))
        keep == SelectSeq(acc.sessions, LAMBDA s : ~Expired(s, acc.seen, t, a.grace))
        hist == RecordEnded(DictGet(st, "ended_history", <<>>), end, pm, t, a.history_n)
    IN  [sessions |-> keep, run |-> acc.run, seen |-> acc.seen, ended |-> end,
         stats |-> DictPut(IF acc.run = run THEN st
                           ELSE DictPut(st, "lifetime_port_hits", acc.lph),
                           "ended_history", hist)]

-----------------------------------------------------------------------------
(* App.compute_views *)

(* clamp_topn: lst[:max(0, n)] *)
clamp_topn_slice(lst, n) == SliceTo(lst, n)
clamp_topn(lst, n) == SubSeq(lst, 1, Min(Max(0, n), Len(lst)))

(* line 838: sorted(active, key=(state != "ESTABLISHED", -age)), stable *)
SessKeyLe(a, b, t) ==
    \/ a.state = "ESTABLISHED" /\ b.state # "ESTABLISHED"
    \/ /\ (a.state = "ESTABLISHED") = (b.state = "ESTABLISHED")
       /\ age_s(a, t) >= age_s(b, t)
RECURSIVE SortSessions(_, _, _)
SortSessions(sorted, rest, t) ==
    IF rest = <<>> THEN sorted
    ELSE LET x == Head(rest)
             n == Cardinality({i \in DOMAIN sorted : SessKeyLe(sorted[i], x, t)})
         IN  SortSessions(SubSeq(sorted, 1, n) \o <<x>> \o SubSeq(sorted, n + 1, Len(sorted)),
                          Tail(rest), t)
active_sorted(active, t) == SortSessions(<<>>, active, t)

(* lines 866-869: the established sessions, longest first, a stable sort *)
RECURSIVE SortByAge(_, _, _)
SortByAge(sorted, rest, t) ==
    IF rest = <<>> THEN sorted
    ELSE LET x == Head(rest)
             n == Cardinality({i \in DOMAIN sorted : age_s(sorted[i], t) >= age_s(x, t)})
         IN  SortByAge(SubSeq(sorted, 1, n) \o <<x>> \o SubSeq(sorted, n + 1, Len(sorted)),
                       Tail(rest), t)
est(active, t) ==
    SortByAge(<<>>, SelectSeq(active, LAMBDA s : s.state = "ESTABLISHED"), t)

(* lines 860-864: the active sessions of each port, in the order of the    *)
(* port's first session, then sorted by count, largest first, stable       *)
RECURSIVE PortsOf(_, _)
PortsOf(active, known) ==
    IF active = <<>> THEN <<>>
    ELSE IF Head(active).dst_port \in known THEN PortsOf(Tail(active), known)
    ELSE <<Head(active).dst_port>>
            \o PortsOf(Tail(active), known \cup {Head(active).dst_port})
port_active(active) ==
    MapSeq(PortsOf(active, {}),
           LAMBDA p : <<p, Cardinality({i \in DOMAIN active : active[i].dst_port = p})>>)
RECURSIVE SortItems(_, _)
SortItems(sorted, rest) ==
    IF rest = <<>> THEN sorted
    ELSE LET x == Head(rest)
             n == Cardinality({i \in DOMAIN sorted : sorted[i][2] >= x[2]})
         IN  SortItems(SubSeq(sorted, 1, n) \o <<x>> \o SubSeq(sorted, n + 1, Len(sorted)),
                       Tail(rest))

(* lines 841-858: the rows of the top sources *)

(* by_ip: the source addresses in the order of their first session *)
RECURSIVE SourcesOf(_, _)
SourcesOf(active, known) ==
    IF active = <<>> THEN <<>>
    ELSE IF Head(active).src_ip \in known THEN SourcesOf(Tail(active), known)
    ELSE <<Head(active).src_ip>>
            \o SourcesOf(Tail(active), known \cup {Head(active).src_ip})

by_ip(active, ip) == SelectSeq(active, LAMBDA s : s.src_ip = ip)

(* max(x.age_s(now) for x in lst), of a list that is not empty *)
YoungestOf(lst, t) ==
    CHOOSE a \in {age_s(lst[i], t) : i \in DOMAIN lst} :
        \A i \in DOMAIN lst : age_s(lst[i], t) >= a
OldestOf(lst, t) ==
    CHOOSE a \in {age_s(lst[i], t) : i \in DOMAIN lst} :
        \A i \in DOMAIN lst : age_s(lst[i], t) <= a

(* sorted(set(...)) of port numbers and of state names; the names of the   *)
(* conntrack TCP states in the order of str                                *)
RECURSIVE SortedInts(_)
SortedInts(S) ==
    IF S = {} THEN <<>>
    ELSE LET m == CHOOSE x \in S : \A y \in S : x <= y
         IN  <<m>> \o SortedInts(S \ {m})
StateNames ==
    <<"CLOSE", "CLOSE_WAIT", "ESTABLISHED", "FIN_WAIT", "LAST_ACK", "SYN_RECV",
      "SYN_SENT", "SYN_SENT2", "TIME_WAIT">>
SortedStates(S) == SelectSeq(StateNames, LAMBDA x : x \in S)

src_row(ip, lst, t) ==
    [ip |-> ip, active |-> Len(lst), oldest_s |-> OldestOf(lst, t),
     states |-> SortedStates({lst[i].state : i \in DOMAIN lst}),
     ports |-> SortedInts({lst[i].dst_port : i \in DOMAIN lst})]

(* src_rows.sort(key=(active, oldest_s), reverse=True), a stable sort *)
SrcKeyGeByAge(a, b) ==
    a.oldest_s > b.oldest_s \/ (a.oldest_s = b.oldest_s /\ a.active >= b.active)
SrcKeyGe(a, b) ==
    a.active > b.active \/ (a.active = b.active /\ a.oldest_s >= b.oldest_s)
RECURSIVE SortSources(_, _)
SortSources(sorted, rest) ==
    IF rest = <<>> THEN sorted
    ELSE LET x == Head(rest)
             n == Cardinality({i \in DOMAIN sorted : SrcKeyGe(sorted[i], x)})
         IN  SortSources(SubSeq(sorted, 1, n) \o <<x>> \o SubSeq(sorted, n + 1, Len(sorted)),
                         Tail(rest))

src_rows(active, t) ==
    SortSources(<<>>, MapSeq(SourcesOf(active, {}),
                             LAMBDA ip : src_row(ip, by_ip(active, ip), t)))

(* the returned dict, and src_rows as it is before clamp_topn *)
compute_views(active, t, topn, st) ==
    [sessions_top |-> clamp_topn(active_sorted(active, t), topn),
     src_rows |-> src_rows(active, t),
     sources_top |-> clamp_topn(src_rows(active, t), topn),
     port_active_items |-> SortItems(<<>>, port_active(active)),
     est_top |-> clamp_topn(est(active, t), topn),
     ended_hist |-> SortDesc(DictGet(st, "ended_history", <<>>))]
(* what compute_views leaves of the store and the document: it assigns to *)
(* no attribute of self or of a session, and each sort runs on a new list *)
(* (sorted(active), the locals src_rows and est, list(ended_history))      *)
after_views_in_place(ss, st, t) ==
    [sessions |-> active_sorted(ss, t),
     stats |-> DictPut(st, "ended_history", SortDesc(DictGet(st, "ended_history", <<>>)))]
after_views(ss, st, t) == [sessions |-> ss, stats |-> st]
NoView ==
    [sessions_top |-> <<>>, src_rows |-> <<>>, sources_top |-> <<>>,
     port_active_items |-> <<>>, est_top |-> <<>>, ended_hist |-> <<>>]

-----------------------------------------------------------------------------
(* Stats IO.  A file is absent or holds a text: a JSON object (body is the *)
(* object), valid JSON that is no object ("array"), text that is no JSON   *)
(* ("invalid"), or the truncated prefix of a document ("partial").         *)

NoFile == [kind |-> "absent", body |-> EmptyDict]
Text(kind) == [kind |-> kind, body |-> EmptyDict]

(* json.dumps: the keys of a dict are written as strings *)
JsonDict(d) ==
    [k2 \in {StrOf(k.v) : k \in DOMAIN d} |->
        d[CHOOSE k \in DOMAIN d : StrOf(k.v) = k2]]

json_dumps(st) ==
    [kind |-> "object",
     body |-> IF "lifetime_port_hits" \in DOMAIN st
              THEN DictPut(st, "lifetime_port_hits", JsonDict(st.lifetime_port_hits))
              ELSE st]

(* json.loads followed by the isinstance(d, dict) test *)
json_loads(f) == [ok |-> f.kind = "object", val |-> f.body]

(* load_stats, lines 292-300 and 312-320: the freshly initialized document *)
FreshStats(t, notes) ==
    [version |-> VERSION, created |-> t, updated |-> t, notes |-> notes,
     theme |-> THEMES[1], lifetime_port_hits |-> EmptyDict, ended_history |-> <<>>]

LoadFailedNote == "Failed to load stats; started new."

(* load_stats, lines 305-310: defaults of a parsed document *)
Upgrade(d) ==
    DictPut(DictSetDefault(DictSetDefault(DictSetDefault(DictSetDefault(d,
        "notes", <<>>), "lifetime_port_hits", EmptyDict), "ended_history", <<>>),
        "theme", THEMES[1]), "version", VERSION)

(* load_stats; raised tells whether an exception reaches the caller *)
load_stats_unguarded(f, t) ==
    IF f.kind = "absent" THEN [raised |-> FALSE, doc |-> FreshStats(t, <<>>)]
    ELSE [raised |-> ~json_loads(f).ok, doc |-> Upgrade(json_loads(f).val)]
load_stats(f, t) ==
    IF f.kind = "absent" THEN [raised |-> FALSE, doc |-> FreshStats(t, <<>>)]
    ELSE IF json_loads(f).ok THEN [raised |-> FALSE, doc |-> Upgrade(json_loads(f).val)]
    ELSE [raised |-> FALSE, doc |-> FreshStats(t, <<LoadFailedNote>>)]

(* What can happen to _atomic_write: it completes, write_text or replace   *)
(* raises OSError, or the process is killed at one of its steps.           *)
WriteOutcomes ==
    {"ok", "write_error", "replace_error",
     "crash_before_write", "crash_mid_write", "crash_before_rename", "crash_after_rename"}
Raises(out) == out \in {"write_error", "replace_error"}
Dies(out) == out \in {"crash_before_write", "crash_mid_write", "crash_before_rename",
                      "crash_after_rename"}

(* _atomic_write(path, data): path and tmp are the contents of the two     *)
(* files before the call; the result is their contents after it.           *)
direct_write(path, tmp, data, out) ==
    [path |-> CASE out = "crash_before_write" -> path
                [] out \in {"write_error", "crash_mid_write"} -> Text("partial")
                [] OTHER -> data,
     tmp |-> tmp]
_atomic_write(path, tmp, data, out) ==
    [path |-> IF out \in {"ok", "crash_after_rename"} THEN data ELSE path,
     tmp |-> CASE out = "crash_before_write" -> tmp
               [] out \in {"write_error", "crash_mid_write"} -> Text("partial")
               [] out \in {"replace_error", "crash_before_rename"} -> data
               [] OTHER -> NoFile]

(* save_stats, lines 323-324: the document as it is written *)
Stamped(st, t) == DictPut(DictPut(st, "version", VERSION), "updated", t)

(* save_stats: the files after the call *)
save_stats(st, f, tmp, t, out) == _atomic_write(f, tmp, json_dumps(Stamped(st, t)), out)

-----------------------------------------------------------------------------
(* The status line *)
Action(msg, arg) == [msg |-> msg, arg |-> arg]
NoIo == [op |-> "none", out |-> "none"]
Io(op, out) == [op |-> op, out |-> out]

(* App.theme *)
theme(idx) == THEMES[(idx % Len(THEMES)) + 1]

(* App.__init__, line 648 *)
ThemeIndex(st) ==
    IF "theme" \in DOMAIN st /\ st.theme \in Range(THEMES)
    THEN (CHOOSE i \in DOMAIN THEMES : THEMES[i] = st.theme) - 1
    ELSE 0

(* get_watched_ports: the listening (or configured) ports, without the     *)
(* admin ports when exclude_admin; the fallback list when none is left.    *)
FALLBACK_WATCH_PORTS ==
    {21, 22, 23, 25, 53, 80, 110, 111, 135, 139, 143, 443, 445, 465, 587, 993, 995,
     1433, 1521, 1723, 1883, 2049, 2181, 2375, 2376, 3306, 3389, 5432, 5900, 5985,
     5986, 6379, 6667, 7001, 8000, 8008, 8080, 8088, 8443, 8888, 9000, 9200, 9300,
     11211, 27017, 64296, 64298, 64299, 64303, 64305}
get_watched_ports(listen, exclude_admin) ==
    LET ports == IF exclude_admin THEN listen \ DEFAULT_EXCLUDE_ADMIN_PORTS ELSE listen
    IN  IF ports # {} THEN ports
        ELSE {p \in FALLBACK_WATCH_PORTS :
                p \notin DEFAULT_EXCLUDE_ADMIN_PORTS \/ ~exclude_admin}

-----------------------------------------------------------------------------
(* Arguments (parse_args): grace and autosave in ticks, the largest        *)
(* history_n                                                               *)
GraceTicks == 2
AutosaveTicks == 3
MaxHistoryN == 2

(* Stats files found at the first start *)
OldRecord(d) ==
    [ended_ts |-> 0, src |-> PUB, sport |-> 5555, dst |-> HOST, dport |-> 22,
     state |-> "ESTABLISHED", duration_s |-> d, container |-> "cowrie"]
OldDoc ==
    [version |-> "0.6.6", created |-> 0, updated |-> 0, notes |-> <<"kept">>,
     theme |-> "matrix", lifetime_port_hits |-> (StrOf(22) :> 3),
     ended_history |-> <<OldRecord(0), OldRecord(1), OldRecord(3)>>]
Restrict(d, keys) == [k \in DOMAIN d \cap keys |-> d[k]]
FileOf(d) == [kind |-> "object", body |-> d]
(* insertion of a duration in a descending list: the history variable *)
RECURSIVE InsertAll(_, _)
InsertAll(ds, xs) ==
    IF xs = <<>> THEN ds
    ELSE LET n == Cardinality({i \in DOMAIN ds : ds[i] >= Head(xs)})
         IN  InsertAll(SubSeq(ds, 1, n) \o <<Head(xs)>> \o SubSeq(ds, n + 1, Len(ds)),
                       Tail(xs))
Durations(h) == MapSeq(h, DurKey)

-----------------------------------------------------------------------------
InitWith(files, argset) ==
    /\ pc = "boot"
    /\ now = 0
    /\ args \in argset
    /\ file \in files
    /\ tmpfile = NoFile
    /\ stats = EmptyDict
    /\ sessions = <<>>
    /\ port_hits_run = EmptyDict
    /\ seen_keys = {}
    /\ ended = <<>>
    /\ port_map = EmptyDict
    /\ hide_private = TRUE
    /\ hide_admin = TRUE
    /\ mode = "ALL"
    /\ theme_idx = 0
    /\ last_autosave = 0
    /\ last_action = Action("", "")
    /\ stop = FALSE
    /\ io = NoIo
    /\ inserted = <<>>
    /\ ct_rows = <<>>
    /\ watched_ports = {}
    /\ view = NoView


(* main: App(args), lines 645-668, then the signal handlers and run *)
Startup ==
    /\ pc = "boot"
    /\ LET l == load_stats(file, now)
       IN  /\ pc' = IF l.raised THEN "crashed" ELSE "loop"
           /\ stats' = l.doc
           /\ theme_idx' = ThemeIndex(l.doc)
           /\ inserted' = InsertAll(<<>>, Durations(DictGet(l.doc, "ended_history", <<>>)))
    /\ hide_private' = TRUE
    /\ hide_admin' = TRUE
    /\ mode' = "ALL"
    /\ last_action' = Action("Loaded stats", "")
    /\ sessions' = <<>>
    /\ port_hits_run' = EmptyDict
    /\ last_autosave' = now
    /\ port_map' = EmptyDict
    /\ stop' = FALSE
    /\ seen_keys' = {}
    /\ ended' = <<>>
    /\ io' = NoIo
    /\ UNCHANGED <<now, args, file, tmpfile, ct_rows, watched_ports, view>>

(* main._sig -> App.stop *)
SignalSaves ==
    /\ pc \in {"loop", "autosave", "input"}
    /\ ~stop
    /\ stop' = TRUE
    /\ file' = save_stats(stats, file, tmpfile, now, "ok").path
    /\ UNCHANGED <<pc, now, args, tmpfile, stats, sessions, port_hits_run,
                   seen_keys, ended, port_map, hide_private, hide_admin, mode,
                   theme_idx, last_autosave, last_action, io, inserted, ct_rows, watched_ports, view>>
Signal ==
    /\ pc \in {"loop", "autosave", "input"}
    /\ ~stop
    /\ stop' = TRUE
    /\ UNCHANGED <<pc, now, args, file, tmpfile, stats, sessions, port_hits_run,
                   seen_keys, ended, port_map, hide_private, hide_admin, mode,
                   theme_idx, last_autosave, last_action, io, inserted, ct_rows, watched_ports, view>>

(* App.run, lines 1078-1096: the top of the loop to the end of the pass.   *)
(* The clock has advanced by one of steps and is no later than horizon;   *)
(* read_conntrack_tcp returns one of rowseqs (no rows when the command    *)
(* times out or fails).  rows is a local of update_sessions: ct_rows      *)
(* keeps it after the pass where keep_rows is set, for the properties     *)
(* that speak of the records of a pass.  view is a local of run, drawn    *)
(* and dropped: it is kept where keep_view is set, for the properties     *)
(* that speak of the views.                                                *)
Tick(rowseqs, pms, listens, steps, horizon, keep_rows, keep_view) ==
    /\ pc = "loop"
    /\ ~stop
    /\ \E dt \in steps, pm \in pms, listen \in listens, rs \in rowseqs :
        /\ now + dt <= horizon
        /\ now' = now + dt
        /\ port_map' = pm
        /\ ct_rows' = IF keep_rows THEN rs ELSE <<>>
        /\ watched_ports' = get_watched_ports(listen, hide_admin)
        /\ \E u \in {update_sessions(sessions, port_hits_run, stats, pm, rs,
                                     get_watched_ports(listen, hide_admin),
                                     hide_private, hide_admin, mode, now + dt, args)} :
               /\ sessions' = after_views(u.sessions, u.stats, now + dt).sessions
               /\ port_hits_run' = u.run
               /\ stats' = after_views(u.sessions, u.stats, now + dt).stats
               /\ seen_keys' = u.seen
               /\ view' = IF keep_view
                          THEN compute_views(u.sessions, now + dt, args.topn, u.stats)
                          ELSE NoView
               /\ ended' = u.ended
               /\ inserted' = InsertAll(inserted,
                                 Durations(MapSeq(u.ended,
                                     LAMBDA s : EndedRecord(s, pm, now + dt))))
    /\ pc' = "autosave"
    /\ io' = NoIo
    /\ UNCHANGED <<args, file, tmpfile, hide_private, hide_admin, mode, theme_idx,
                   last_autosave, last_action, stop>>

Poll(rowseqs, pms, listens) ==
    Tick(rowseqs, pms, listens, 1..MaxStep, MaxNow, FALSE, FALSE)

(* App.run, lines 1098-1106 *)
AutosaveOverdue == (now - last_autosave) > args.autosave
AutosaveDue == (now - last_autosave) >= args.autosave

AutosaveSkip ==
    /\ pc = "autosave"
    /\ ~AutosaveDue
    /\ pc' = "input"
    /\ UNCHANGED <<now, args, file, tmpfile, stats, sessions, port_hits_run, seen_keys,
                   ended, port_map, hide_private, hide_admin, mode, theme_idx,
                   last_autosave, last_action, stop, io, inserted, ct_rows, watched_ports, view>>

Autosave ==
    /\ pc = "autosave"
    /\ AutosaveDue
    /\ \E out \in WriteOutcomes, snap \in {"ok", "error"} :
        LET w == save_stats(stats, file, tmpfile, now, out)
        IN  /\ file' = w.path
            /\ tmpfile' = w.tmp
            /\ stats' = Stamped(stats, now)
            /\ io' = Io("autosave",
                        IF out = "ok" /\ snap = "error" THEN "snapshot_error" ELSE out)
            /\ pc' = IF Dies(out) THEN "crashed" ELSE "input"
            /\ IF out = "ok" /\ snap = "ok"
               THEN /\ last_autosave' = now
                    /\ last_action' = Action("Autosaved stats + snapshot", "")
               ELSE IF Dies(out)
               THEN UNCHANGED <<last_autosave, last_action>>
               ELSE /\ last_autosave' = last_autosave
                    /\ last_action' = Action("Autosave failed", "")
    /\ UNCHANGED <<now, args, sessions, port_hits_run, seen_keys, ended, port_map,
                   hide_private, hide_admin, mode, theme_idx, stop, inserted, ct_rows,
                   watched_ports, view>>

(* App.save_now: save_stats, then the snapshot; an OSError of either       *)
(* leaves run() (lines 1157 and 1172 have no try)                          *)
save_now(next) ==
    \E out \in WriteOutcomes, snap \in {"ok", "error"} :
        LET w == save_stats(stats, file, tmpfile, now, out)
            op == IF next = "final" THEN "quit" ELSE "save_now"
        IN  /\ file' = w.path
            /\ tmpfile' = w.tmp
            /\ stats' = Stamped(stats, now)
            /\ io' = Io(op, IF out = "ok" /\ snap = "error" THEN "snapshot_error" ELSE out)
            /\ IF out = "ok" /\ snap = "ok"
               THEN /\ pc' = next
                    /\ last_action' = Action("Saved stats + snapshot", "")
               ELSE /\ pc' = "crashed"
                    /\ last_action' = last_action

Frame == UNCHANGED <<now, args, sessions, port_hits_run, seen_keys, ended, port_map,
                     last_autosave, stop, inserted, ct_rows, watched_ports, view>>

(* App.run, lines 1149-1150: no key within the timeout *)
NoKey ==
    /\ pc = "input"
    /\ pc' = "loop"
    /\ UNCHANGED <<file, tmpfile, stats, hide_private, hide_admin, mode, theme_idx,
                   last_action, io>>
    /\ Frame

(* lines 1156-1158: q or ESC *)
KeyQuit ==
    /\ pc = "input"
    /\ save_now("final")
    /\ UNCHANGED <<hide_private, hide_admin, mode, theme_idx>>
    /\ Frame

(* lines 1171-1172: s *)
KeySave ==
    /\ pc = "input"
    /\ save_now("loop")
    /\ UNCHANGED <<hide_private, hide_admin, mode, theme_idx>>
    /\ Frame

(* App.reset_lifetime_hits, line 706 *)
reset_counters_and_history(st) ==
    DictPut(DictPut(st, "lifetime_port_hits", EmptyDict), "ended_history", <<>>)
reset_lifetime_hits(st) == DictPut(st, "lifetime_port_hits", EmptyDict)

(* lines 1173-1174: r, App.reset_lifetime_hits *)
KeyReset ==
    /\ pc = "input"
    /\ \E out \in WriteOutcomes :
        LET cleared == reset_lifetime_hits(stats)
            w == save_stats(cleared, file, tmpfile, now, out)
        IN  /\ file' = w.path
            /\ tmpfile' = w.tmp
            /\ stats' = Stamped(cleared, now)
            /\ io' = Io("reset", out)
            /\ last_action' = Action("Reset lifetime port hits (history kept)", "")
            /\ pc' = IF out = "ok" THEN "loop" ELSE "crashed"
    /\ UNCHANGED <<hide_private, hide_admin, mode, theme_idx>>
    /\ Frame

(* lines 1159-1160: t, App.toggle_theme *)
KeyTheme ==
    /\ pc = "input"
    /\ theme_idx' = (theme_idx + 1) % Len(THEMES)
    /\ stats' = DictPut(stats, "theme", theme(theme_idx + 1))
    /\ last_action' = Action("Theme", theme(theme_idx + 1))
    /\ pc' = "loop"
    /\ UNCHANGED <<file, tmpfile, hide_private, hide_admin, mode, io>>
    /\ Frame

(* lines 1161-1162: p, App.toggle_private *)
KeyPrivate ==
    /\ pc = "input"
    /\ hide_private' = ~hide_private
    /\ last_action' = Action("Private sources", IF ~hide_private THEN "HIDE" ELSE "SHOW")
    /\ pc' = "loop"
    /\ UNCHANGED <<file, tmpfile, stats, hide_admin, mode, theme_idx, io>>
    /\ Frame

(* lines 1163-1164: a, App.toggle_admin *)
KeyAdmin ==
    /\ pc = "input"
    /\ hide_admin' = ~hide_admin
    /\ last_action' = Action("Admin ports", IF ~hide_admin THEN "HIDE" ELSE "SHOW")
    /\ pc' = "loop"
    /\ UNCHANGED <<file, tmpfile, stats, hide_private, mode, theme_idx, io>>
    /\ Frame

(* lines 1169-1170: e, App.toggle_mode *)
KeyMode ==
    /\ pc = "input"
    /\ mode' = IF mode = "ALL" THEN "EST" ELSE "ALL"
    /\ last_action' = Action("Mode", IF mode = "ALL" THEN "EST" ELSE "ALL")
    /\ pc' = "loop"
    /\ UNCHANGED <<file, tmpfile, stats, hide_private, hide_admin, theme_idx, io>>
    /\ Frame

(* lines 1179-1183: the final save, after the loop *)
FinalSaveFlushes ==
    /\ pc = "final" \/ (pc = "loop" /\ stop)
    /\ \E out \in WriteOutcomes :
        LET flushed == DictPut(stats, "ended_history",
                               RecordEnded(DictGet(stats, "ended_history", <<>>),
                                           sessions, port_map, now, args.history_n))
            w == save_stats(flushed, file, tmpfile, now, out)
        IN  /\ file' = w.path
            /\ tmpfile' = w.tmp
            /\ stats' = Stamped(flushed, now)
            /\ io' = Io("final", out)
            /\ pc' = IF Dies(out) THEN "crashed" ELSE "done"
    /\ UNCHANGED <<hide_private, hide_admin, mode, theme_idx, last_action>>
    /\ Frame
FinalSave ==
    /\ pc = "final" \/ (pc = "loop" /\ stop)
    /\ \E out \in WriteOutcomes :
        LET w == save_stats(stats, file, tmpfile, now, out)
        IN  /\ file' = w.path
            /\ tmpfile' = w.tmp
            /\ stats' = Stamped(stats, now)
            /\ io' = Io("final", out)
            /\ pc' = IF Dies(out) THEN "crashed" ELSE "done"
    /\ UNCHANGED <<hide_private, hide_admin, mode, theme_idx, last_action>>
    /\ Frame

(* Spec: live traffic of two flows, the mode key, and an autosave         *)
(* interval longer than the run                                            *)
TwoFlows ==
    {Row(PUB, 4444, 22, "ESTABLISHED", 300), Row(PUB, 4444, 22, "TIME_WAIT", 60),
     Row(PUB, 4444, 80, "ESTABLISHED", 300)}
TwoFlowSeqs == UNION {[1..n -> TwoFlows] : n \in 0..MaxRows}
Init ==
    InitWith({NoFile, FileOf(OldDoc)},
             [grace : {GraceTicks}, history_n : {-1, 0, MaxHistoryN}, autosave : {MaxNow + 1},
              topn : {DEFAULT_TOPN}])
Next ==
    \/ Startup
    \/ Signal
    \/ Poll(TwoFlowSeqs, {(22 :> "cowrie")}, {{22, 80}})
    \/ AutosaveSkip
    \/ NoKey
    \/ KeyMode
    \/ FinalSave
Spec == Init /\ [][Next]_vars

(* SpecIO: one flow, the keys that write the stats and the mode key *)
OneFlowSeqs ==
    UNION {[1..n -> {Row(PUB, 4444, 22, "ESTABLISHED", 300)}] : n \in 0..1}
InitIO ==
    InitWith({NoFile, FileOf(OldDoc)},
             [grace : {GraceTicks}, history_n : {MaxHistoryN}, autosave : {AutosaveTicks},
              topn : {DEFAULT_TOPN}])
NextIO ==
    \/ Startup
    \/ Signal
    \/ Poll(OneFlowSeqs, {(22 :> "cowrie")}, {{22, 80}})
    \/ AutosaveSkip
    \/ Autosave
    \/ NoKey
    \/ KeyQuit
    \/ KeySave
    \/ KeyReset
    \/ KeyTheme
    \/ KeyMode
    \/ FinalSave
SpecIO == InitIO /\ [][NextIO]_vars

(* SpecLoad: an idle host, started on every stats file that lacks a subset *)
(* of the fields, on a missing file and on files that do not parse         *)
Schema ==
    {"version", "created", "updated", "notes", "theme", "lifetime_port_hits",
     "ended_history"}
AllFiles ==
    {NoFile, Text("invalid"), Text("partial"), Text("array")}
        \cup {FileOf(Restrict(OldDoc, keep)) : keep \in SUBSET Schema}
InitLoad ==
    InitWith(AllFiles,
             [grace : {GraceTicks}, history_n : {MaxHistoryN}, autosave : {AutosaveTicks},
              topn : {DEFAULT_TOPN}])
NextLoad ==
    \/ Startup
    \/ Signal
    \/ Poll({<<>>}, {EmptyDict}, {{22, 80}})
    \/ AutosaveSkip
    \/ Autosave
    \/ NoKey
    \/ KeyTheme
    \/ FinalSave
SpecLoad == InitLoad /\ [][NextLoad]_vars

(* SpecPass: the traffic of Spec on a fresh start, the records of each     *)
(* pass kept                                                               *)
PollRows ==
    Tick(TwoFlowSeqs, {(22 :> "cowrie")}, {{22, 80}}, 1..MaxStep, MaxNow, TRUE, FALSE)
InitPass ==
    InitWith({NoFile},
             [grace : {GraceTicks}, history_n : {MaxHistoryN}, autosave : {MaxNow + 1},
              topn : {DEFAULT_TOPN}])
NextPass ==
    \/ Startup
    \/ Signal
    \/ PollRows
    \/ AutosaveSkip
    \/ NoKey
    \/ FinalSave
SpecPass == InitPass /\ [][NextPass]_vars

(* SpecFilter: records of a public and of a private source, to a watched,  *)
(* an admin and an unwatched port, alone or followed by a record that      *)
(* passes every filter, and the three filter keys; no signal arrives       *)
FilterRows ==
    {Row(PUB, 4444, 22, "ESTABLISHED", 300), Row(PUB, 4444, 22, "TIME_WAIT", 60),
     Row(PRIV, 4444, 22, "ESTABLISHED", 300), Row(PUB, 4444, 64295, "ESTABLISHED", 300),
     Row(PUB, 4444, 8080, "ESTABLISHED", 300)}
FilterRowSeqs ==
    UNION {[1..n -> FilterRows] : n \in 0..1}
        \cup {<<r, Row(PUB, 4444, 22, "ESTABLISHED", 300)>> :
                r \in {x \in FilterRows : x.src = PRIV \/ x.dport # 22}}
PollFiltered ==
    Tick(FilterRowSeqs, {(22 :> "cowrie")}, {{22, 64295}}, 1..MaxStep, MaxNow, TRUE, FALSE)
NextFilter ==
    \/ Startup
    \/ PollFiltered
    \/ AutosaveSkip
    \/ NoKey
    \/ KeyPrivate
    \/ KeyAdmin
    \/ KeyMode
SpecFilter == InitPass /\ [][NextFilter]_vars

(* SpecExample: one poll a second, with the default grace period.  The     *)
(* flow 10.0.0.5:4444 -> 203.0.113.9:22 is in the conntrack table from    *)
(* ExampleStart (t = 0 of the example) until before t = 6; the private    *)
(* key is pressed before the flow appears or not at all.                  *)
Sec(n) == n * TicksPerSec
ExampleStart == Sec(2)
ExampleEnd == ExampleStart + Sec(15)
ExampleFlow == [Row(PRIV, 4444, 22, "ESTABLISHED", 300) EXCEPT !.dst = PUB]
ExamplePoll ==
    /\ Tick({<<>>, <<ExampleFlow>>}, {EmptyDict, (22 :> "cowrie")}, {{22, 80}},
            {Sec(DEFAULT_POLL_S)}, ExampleEnd, TRUE, FALSE)
    /\ ct_rows' = IF ExampleStart <= now' /\ now' < ExampleStart + Sec(6)
                  THEN <<ExampleFlow>> ELSE <<>>
ExampleKeyPrivate == KeyPrivate /\ now < ExampleStart
InitExample ==
    InitWith({NoFile},
             [grace : {Sec(DEFAULT_GRACE_S)}, history_n : {MaxHistoryN},
              autosave : {ExampleEnd + 1}, topn : {DEFAULT_TOPN}])
NextExample ==
    \/ Startup
    \/ Signal
    \/ ExamplePoll
    \/ AutosaveSkip
    \/ NoKey
    \/ ExampleKeyPrivate
    \/ FinalSave
SpecExample == InitExample /\ [][NextExample]_vars

(* SpecViews: two sources, one of them with flows to two ports *)
ViewRows ==
    {Row(PUB, 4444, 22, "ESTABLISHED", 300), Row(PUB, 4444, 80, "TIME_WAIT", 60),
     Row(PUB2, 4444, 22, "ESTABLISHED", 300)}
ViewRowSeqs == UNION {[1..n -> ViewRows] : n \in 0..MaxRows}
PollViews ==
    Tick(ViewRowSeqs, {(22 :> "cowrie")}, {{22, 80}}, 1..MaxStep, MaxNow, FALSE, TRUE)
NextViews ==
    \/ Startup
    \/ Signal
    \/ PollViews
    \/ AutosaveSkip
    \/ NoKey
    \/ FinalSave
SpecViews == InitPass /\ [][NextViews]_vars

(* SpecCount: the traffic of SpecPass, started on the stats file of an     *)
(* earlier run                                                             *)
InitCount ==
    InitWith({FileOf(OldDoc)},
             [grace : {GraceTicks}, history_n : {MaxHistoryN}, autosave : {MaxNow + 1},
              topn : {DEFAULT_TOPN}])
SpecCount == InitCount /\ [][NextPass]_vars

(* SpecTop: two sources with two flows each, one record a poll at most, no *)
(* expiry before the horizon, for every kind of --topn                     *)
MaxTopN == 2
TopRows ==
    {Row(PUB, 4444, 22, "ESTABLISHED", 300), Row(PUB, 4444, 80, "TIME_WAIT", 60),
     Row(PUB2, 4444, 22, "ESTABLISHED", 300), Row(PUB2, 4445, 22, "SYN_RECV", 60)}
TopRowSeqs == UNION {[1..n -> TopRows] : n \in 0..1}
PollTop ==
    Tick(TopRowSeqs, {(22 :> "cowrie")}, {{22, 80}}, {1}, MaxNow, FALSE, TRUE)
InitTop ==
    InitWith({NoFile},
             [grace : {MaxNow + 1}, history_n : {MaxHistoryN}, autosave : {MaxNow + 1},
              topn : -1..MaxTopN])
NextTop ==
    \/ Startup
    \/ PollTop
    \/ AutosaveSkip
    \/ NoKey
SpecTop == InitTop /\ [][NextTop]_vars

(* SpecPure: the passes of SpecCount with the views kept *)
PollPure ==
    Tick(TwoFlowSeqs, {(22 :> "cowrie")}, {{22, 80}}, 1..MaxStep, MaxNow, TRUE, TRUE)
NextPure ==
    \/ Startup
    \/ Signal
    \/ PollPure
    \/ AutosaveSkip
    \/ NoKey
    \/ FinalSave
SpecPure == InitCount /\ [][NextPure]_vars

(* SpecGap: one record a poll at most, so that a poll that shows one flow  *)
(* misses the other, and a grace period that outlasts a missed poll        *)
GapRowSeqs == UNION {[1..n -> TwoFlows] : n \in 0..1}
PollGap ==
    Tick(GapRowSeqs, {(22 :> "cowrie")}, {{22, 80}}, 1..MaxStep, MaxNow, TRUE, FALSE)
InitGap ==
    InitWith({FileOf(OldDoc)},
             [grace : {GraceTicks + 1}, history_n : {MaxHistoryN}, autosave : {MaxNow + 1},
              topn : {DEFAULT_TOPN}])
NextGap ==
    \/ Startup
    \/ Signal
    \/ PollGap
    \/ AutosaveSkip
    \/ NoKey
    \/ FinalSave
SpecGap == InitGap /\ [][NextGap]_vars

(* the same passes for every kind of --history-n that parse_args accepts *)
InitRepeat ==
    InitWith({FileOf(OldDoc)},
             [grace : {GraceTicks}, history_n : {-1, 0, MaxHistoryN}, autosave : {MaxNow + 1},
              topn : {DEFAULT_TOPN}])
SpecRepeat == InitRepeat /\ [][NextPass]_vars

-----------------------------------------------------------------------------
(* Properties *)

Lph(st) == DictGet(st, "lifetime_port_hits", EmptyDict)
Hist(st) == DictGet(st, "ended_history", <<>>)
PassStep == pc = "loop" /\ pc' = "autosave"
AfterPass == pc \in {"autosave", "input"}
SortedDesc(h) == \A i, j \in DOMAIN h : i < j => DurKey(h[i]) >= DurKey(h[j])

(* C1: after every reconciliation pass every session of the store has      *)
(* last_seen >= first_seen and was observed in the pass or is within grace  *)
(* of its last observation, and every flow key observed in the pass (every  *)
(* flow that survived the filters) has a session in the store.              *)
C1_StoreInvariant ==
    /\ \A i \in DOMAIN sessions :
        /\ sessions[i].last_seen >= sessions[i].first_seen
        /\ sessions[i].key \in seen_keys \/ now - sessions[i].last_seen < args.grace
    /\ seen_keys \subseteq SessionKeys(sessions)

C1_Witness ==
    /\ pc = "autosave"
    /\ \E i, j \in DOMAIN sessions :
        /\ sessions[i].key \in seen_keys
        /\ sessions[i].last_seen > sessions[i].first_seen
        /\ sessions[j].key \notin seen_keys
        /\ now - sessions[j].last_seen = args.grace - 1

(* C2: in every pass the lifetime counter of a port grows by exactly the    *)
(* number of flow keys on that port that are observed in the pass and were  *)
(* not tracked before it: a tracked session that is observed again adds     *)
(* nothing, so a flow observed in polls 1..N is counted once, at poll 1.    *)
C2_CountedOnce ==
    [][PassStep =>
        \A p \in {22, 80} :
            DictGet(Lph(stats'), StrOf(p), 0) - DictGet(Lph(stats), StrOf(p), 0)
                = Cardinality({k \in seen_keys' :
                                 k[4] = p /\ k \notin SessionKeys(sessions)})]_vars

C2_Witness ==
    /\ pc = "autosave"
    /\ file = NoFile
    /\ DictGet(Lph(stats), StrOf(80), 0) = 1
    /\ \E i \in DOMAIN sessions :
        /\ sessions[i].dst_port = 80
        /\ sessions[i].key \in seen_keys
        /\ sessions[i].first_seen + 2 <= sessions[i].last_seen

(* C3: in every pass a tracked session that is not observed in the pass is  *)
(* finalized (removed from the store, its ended record put into the archive *)
(* before the ranking) exactly when now - last_seen >= grace; otherwise it  *)
(* stays in the store as it was.  So it ends at the first pass with         *)
(* now - T >= grace and at no earlier one.                                  *)
C3_ExpiryAtGrace ==
    [][PassStep =>
        \A i \in DOMAIN sessions :
            LET s == sessions[i] IN
            s.key \notin seen_keys' =>
                IF now' - s.last_seen >= args.grace
                THEN /\ s.key \notin SessionKeys(sessions')
                     /\ s \in Range(ended')
                     /\ Len(Hist(stats)) + Len(ended') <= args.history_n
                            => EndedRecord(s, port_map', now') \in Range(Hist(stats'))
                ELSE /\ s \in Range(sessions')
                     /\ s \notin Range(ended')]_vars

C3_Witness ==
    /\ pc = "autosave"
    /\ \E i \in DOMAIN ended :
        /\ now - ended[i].last_seen > args.grace
        /\ EndedRecord(ended[i], port_map, now) \in Range(Hist(stats))

(* C4: after an insertion of ended sessions the History Archive holds no    *)
(* more than history_n entries (none for a history_n below 0) and is sorted *)
(* by duration_s in non-increasing order, for every configured history_n.   *)
C4_ArchiveBounded ==
    (pc = "autosave" /\ ended # <<>>) =>
        /\ Len(Hist(stats)) <= Max(0, args.history_n)
        /\ SortedDesc(Hist(stats))

(* C5: after any pass the durations in the History Archive are the          *)
(* history_n largest durations of all the records ever put into it (those   *)
(* loaded at start and every session finalized since).                      *)
TopDurations(ds, n) == SubSeq(ds, 1, Min(Max(0, n), Len(ds)))
C5_LongestEver ==
    AfterPass => Durations(Hist(stats)) = TopDurations(inserted, args.history_n)

(* C6: a step leaves the stats file as it was or holding the complete new   *)
(* document, whatever happens to the save, and a save that is cut before    *)
(* the rename leaves the previous document.                                 *)
C6_AtomicSave ==
    [][/\ file' \in {file, json_dumps(stats')}
       /\ io'.out \in {"write_error", "replace_error", "crash_before_write",
                       "crash_mid_write", "crash_before_rename"} => file' = file]_vars

C6_Witness ==
    /\ pc = "crashed"
    /\ io.out = "crash_mid_write"
    /\ tmpfile.kind = "partial"
    /\ file.kind = "object"
    /\ file # json_dumps(stats)

(* C7: started on a missing stats file or on one that does not parse,       *)
(* load_stats raises nothing and App.__init__ completes with a freshly      *)
(* initialized document: empty counters, empty history, the default theme,  *)
(* and a note of the failure when the file did not parse.                   *)
C7_LoadNeverFails ==
    [][(pc = "boot" /\ file.kind # "object") =>
        /\ pc' = "loop"
        /\ stats' = FreshStats(now, IF file.kind = "absent" THEN <<>>
                                    ELSE <<LoadFailedNote>>)]_vars

C7_Witness ==
    /\ pc = "loop"
    /\ file.kind = "invalid"
    /\ stats.notes = <<LoadFailedNote>>
    /\ stats.lifetime_port_hits = EmptyDict
    /\ stats.theme = THEMES[1]

(* C8: after load of a parsable document the in-memory document holds every *)
(* field of the schema, each absent field set to its default and each       *)
(* present field kept unchanged.                                            *)
C8_AllFieldsDefaulted ==
    [][(pc = "boot" /\ file.kind = "object") =>
        \A f \in Schema :
            /\ f \in DOMAIN stats'
            /\ f \in DOMAIN file.body => stats'[f] = file.body[f]
            /\ f \notin DOMAIN file.body => stats'[f] = FreshStats(now, <<>>)[f]]_vars

(* C9: for every document reachable in memory, the document that save_stats *)
(* writes is loaded back equal in every field but updated.                  *)
ModuloUpdated(d) == Restrict(d, DOMAIN d \ {"updated"})
C9_RoundTrip ==
    pc # "boot" =>
        LET saved == Stamped(stats, now)
            back == load_stats(json_dumps(saved), now + 1)
        IN  /\ ~back.raised
            /\ ModuloUpdated(back.doc) = ModuloUpdated(saved)

C9_Witness ==
    /\ pc = "loop"
    /\ file = json_dumps(stats)
    /\ DictGet(Lph(stats), StrOf(22), 0) = 1
    /\ \E i \in DOMAIN Hist(stats) : Hist(stats)[i].ended_ts > 0
    /\ stats.theme = THEMES[2]
    /\ io.op = "save_now"

(* C10: a save attempt that fails with an error does not end the loop,      *)
(* whichever operation made it, and the status line tells of the failure.   *)
C10_SaveFailureSurvived ==
    io.out \in {"write_error", "replace_error", "snapshot_error"} =>
        /\ pc # "crashed"
        /\ io.op # "final" => last_action.msg = "Autosave failed"

(* C11: once a signal has set the stop flag no further pass starts, and    *)
(* run() is not left before the final save has been attempted: unless the   *)
(* process is killed, the step that ends run() after the flag is set, or    *)
(* after the loop was left by the quit key, is the final save.              *)
C11_StopThenFinalSave ==
    [][/\ stop => ~PassStep
       /\ (/\ pc \notin {"done", "crashed"}
           /\ pc' \in {"done", "crashed"}
           /\ stop \/ pc = "final"
           /\ ~Dies(io'.out)) => io'.op = "final"]_vars

(* the records of the pass that passed the filters, and the session of a   *)
(* key                                                                      *)
Kept(rs, w, hp, ha, md) == SelectSeq(rs, LAMBDA r : ~Discarded(r, w, hp, ha, md))
KeysOf(rs) == {FlowKey(rs[i]) : i \in DOMAIN rs}
LastOf(rs, k) == rs[CHOOSE i \in DOMAIN rs :
                        /\ FlowKey(rs[i]) = k
                        /\ \A j \in DOMAIN rs : FlowKey(rs[j]) = k => j <= i]
SessionOf(ss, k) == ss[CHOOSE i \in DOMAIN ss : ss[i].key = k]
ObservedBefore(s) == s.key \in seen_keys /\ s.last_seen = now

(* C12 as stated: in a pass whose record set is empty no session observed  *)
(* at the preceding poll is finalized: it stays in the store as it was and  *)
(* no ended record of it enters the history.                                *)
C12_NoExpiryOnMissedPoll ==
    [][(PassStep /\ ct_rows' = <<>>) =>
        \A i \in DOMAIN sessions :
            ObservedBefore(sessions[i]) =>
                /\ sessions[i] \in Range(sessions')
                /\ sessions[i] \notin Range(ended')
                /\ EndedRecord(sessions[i], port_map', now')
                        \notin Range(Hist(stats')) \ Range(Hist(stats))]_vars

(* C12, amended: the same, for a pass that comes less than the grace       *)
(* period after the preceding one.                                          *)
C12_NoExpiryWithinGrace ==
    [][(PassStep /\ ct_rows' = <<>> /\ now' - now < args.grace) =>
        \A i \in DOMAIN sessions :
            ObservedBefore(sessions[i]) =>
                /\ sessions[i] \in Range(sessions')
                /\ sessions[i] \notin Range(ended')
                /\ EndedRecord(sessions[i], port_map', now')
                        \notin Range(Hist(stats')) \ Range(Hist(stats))]_vars

C12_Witness ==
    /\ pc = "autosave"
    /\ ct_rows = <<>>
    /\ ended = <<>>
    /\ Len(sessions) = 2
    /\ \A i \in DOMAIN sessions : sessions[i].last_seen = now - 1

(* C13: the reset leaves the document with no lifetime port count and with  *)
(* the History Archive it had, record by record; so does the file when the  *)
(* save of the reset succeeds.                                              *)
C13_ResetKeepsHistory ==
    [][(pc = "input" /\ io'.op = "reset") =>
        /\ Lph(stats') = EmptyDict
        /\ Hist(stats') = Hist(stats)
        /\ io'.out = "ok" =>
            /\ file'.body.lifetime_port_hits = EmptyDict
            /\ file'.body.ended_history = Hist(stats)]_vars

C13_Witness ==
    /\ pc = "loop"
    /\ io = Io("reset", "ok")
    /\ port_hits_run # EmptyDict
    /\ Lph(stats) = EmptyDict
    /\ Len(Hist(stats)) = MaxHistoryN
    /\ file = json_dumps(stats)

(* C15: in every pass the keys observed, the sessions created or refreshed *)
(* and the counters raised all come from records whose destination port is  *)
(* watched, whose source is not private while hide_private is set, whose    *)
(* destination port is no admin port while hide_admin is set and whose      *)
(* state is ESTABLISHED while the mode is EST: a session whose key no such  *)
(* record carries is not created and, if tracked, not touched; a port that  *)
(* no such record names is not counted.  With hide_admin set no record to   *)
(* 64295 is observed, and the pass of update_sessions with 64295 added to   *)
(* the watched set tracks and counts the same.                              *)
Passes(r) ==
    /\ r.dport \in watched_ports'
    /\ ~(hide_private /\ _is_private_ipv4(r.src))
    /\ ~(hide_admin /\ r.dport \in {64295, 64294, 64297})
    /\ ~(mode = "EST" /\ r.state # "ESTABLISHED")
PassingKeys == {FlowKey(ct_rows'[i]) : i \in {j \in DOMAIN ct_rows' : Passes(ct_rows'[j])}}
C15_DiscardedNeverTracked ==
    [][PassStep =>
        /\ seen_keys' \subseteq PassingKeys
        /\ SessionKeys(sessions') \ SessionKeys(sessions) \subseteq PassingKeys
        /\ \A i \in DOMAIN sessions :
            sessions[i].key \notin PassingKeys =>
                sessions[i] \in Range(sessions') \cup Range(ended')
        /\ \A p \in {22, 8080, 64295} :
            (\A k \in PassingKeys : k[4] # p) =>
                /\ DictGet(port_hits_run', IntKey(p), 0) = DictGet(port_hits_run, IntKey(p), 0)
                /\ DictGet(Lph(stats'), StrOf(p), 0) = DictGet(Lph(stats), StrOf(p), 0)
        /\ hide_admin =>
            /\ \A k \in seen_keys' : k[4] # 64295
            /\ LET u == update_sessions(sessions, port_hits_run, stats, port_map', ct_rows',
                                        watched_ports' \cup {64295}, hide_private,
                                        hide_admin, mode, now', args)
               IN  /\ u.sessions = sessions'
                   /\ u.seen = seen_keys'
                   /\ u.run = port_hits_run'
                   /\ u.stats = stats']_vars

C15_Witness ==
    /\ pc = "autosave"
    /\ hide_admin /\ hide_private
    /\ ct_rows = <<Row(PUB, 4444, 64295, "ESTABLISHED", 300),
                   Row(PUB, 4444, 22, "ESTABLISHED", 300)>>
    /\ seen_keys = {FlowKey(Row(PUB, 4444, 22, "ESTABLISHED", 300))}
    /\ \E i \in DOMAIN sessions :
        /\ sessions[i].dst_port = 64295
        /\ sessions[i].last_seen = now - 1
    /\ DictGet(port_hits_run, IntKey(64295), 0) = 1

(* C14: no step but the reset removes a port from the lifetime counters or  *)
(* lowers its count: passes, autosaves, saves by key, the final save, the   *)
(* theme key and the mode key keep or raise every count.                    *)
C14_LifetimeMonotone ==
    [][~(pc = "input" /\ io'.op = "reset") =>
        \A k \in DOMAIN Lph(stats) :
            /\ k \in DOMAIN Lph(stats')
            /\ Lph(stats')[k] >= Lph(stats)[k]]_vars

C14_Witness ==
    /\ pc = "done"
    /\ mode = "EST"
    /\ stats.theme = THEMES[3]
    /\ Lph(stats) = (StrOf(22) :> 4)
    /\ Lph(file.body) = (StrOf(22) :> 4)

(* C16 as stated: in the example the flow is finalized by t = 14, with      *)
(* duration_s = 5 and the container of port 22 or "unmapped".               *)
ExampleRecords ==
    {i \in DOMAIN Hist(stats) :
        LET x == Hist(stats)[i]
        IN  x.src = PRIV /\ x.sport = 4444 /\ x.dst = PUB /\ x.dport = 22}
ExampleFinalized ==
    /\ \A i \in DOMAIN sessions : sessions[i].key # FlowKey(ExampleFlow)
    /\ Cardinality(ExampleRecords) = 1
    /\ \A i \in ExampleRecords :
        LET x == Hist(stats)[i]
        IN  /\ x.duration_s = 5
            /\ x.state = "ESTABLISHED"
            /\ x.ended_ts = ExampleStart + Sec(13)
            /\ x.container \in {"cowrie", "unmapped"}
            /\ now = x.ended_ts => x.container = container_for_port(port_map, 22)
C16_Example ==
    now >= ExampleStart + Sec(14) => ExampleFinalized

(* C16, amended: the same with the private sources shown; the flow is in    *)
(* the store up to the poll at t = 13 (last_seen 5 + grace 8), which ends   *)
(* it.                                                                      *)
C16_ExampleShown ==
    (~hide_private /\ now >= ExampleStart) =>
        IF now < ExampleStart + Sec(13)
        THEN /\ ExampleRecords = {}
             /\ \E i \in DOMAIN sessions :
                 /\ sessions[i].key = FlowKey(ExampleFlow)
                 /\ sessions[i].first_seen = ExampleStart
                 /\ sessions[i].last_seen = Min(now, ExampleStart + Sec(5))
        ELSE ExampleFinalized

C16_Witness ==
    /\ ~hide_private
    /\ pc = "autosave"
    /\ now = ExampleStart + Sec(13)
    /\ Len(ended) = 1
    /\ \E i \in ExampleRecords : Hist(stats)[i].container = "cowrie"

(* C17: the rows of the top sources, before the truncation, are one row    *)
(* for each source address of the store; the row of a source holds the     *)
(* number of its sessions, their distinct destination ports in ascending    *)
(* order, their distinct states in the order of their names, and the        *)
(* greatest of their ages.                                                  *)
Ascending(q) == \A i, j \in DOMAIN q : i < j => q[i] < q[j]
NameRank(x) == CHOOSE i \in DOMAIN StateNames : StateNames[i] = x
From(ip) == {j \in DOMAIN sessions : sessions[j].src_ip = ip}
C17_TopSources ==
    LET rs == view.src_rows IN
    /\ Len(rs) = Cardinality({sessions[j].src_ip : j \in DOMAIN sessions})
    /\ {rs[i].ip : i \in DOMAIN rs} = {sessions[j].src_ip : j \in DOMAIN sessions}
    /\ \A i \in DOMAIN rs :
        /\ rs[i].active = Cardinality(From(rs[i].ip))
        /\ Range(rs[i].ports) = {sessions[j].dst_port : j \in From(rs[i].ip)}
        /\ Ascending(rs[i].ports)
        /\ Range(rs[i].states) = {sessions[j].state : j \in From(rs[i].ip)}
        /\ Ascending([k \in DOMAIN rs[i].states |-> NameRank(rs[i].states[k])])
        /\ \A j \in From(rs[i].ip) : now - sessions[j].first_seen <= rs[i].oldest_s
        /\ \E j \in From(rs[i].ip) : now - sessions[j].first_seen = rs[i].oldest_s

C17_Witness ==
    /\ pc = "input"
    /\ Len(view.src_rows) = 2
    /\ \E i \in DOMAIN view.src_rows :
        /\ view.src_rows[i].ip = PUB
        /\ view.src_rows[i].active = 2
        /\ view.src_rows[i].ports = <<22, 80>>
        /\ view.src_rows[i].states = <<"ESTABLISHED", "TIME_WAIT">>
        /\ view.src_rows[i].oldest_s = 3
        /\ \E j \in From(PUB) : now - sessions[j].first_seen = 1

(* C18: a tick whose now - last_autosave has reached the interval attempts  *)
(* the autosave and sets last_autosave to now exactly when the attempt      *)
(* succeeds; a tick below the interval writes nothing and leaves            *)
(* last_autosave; the tick after a failed autosave is due again.            *)
C18_AutosaveWhenDue ==
    [][/\ (pc = "autosave" /\ pc' # "autosave") =>
            IF now - last_autosave >= args.autosave
            THEN /\ io'.op = "autosave"
                 /\ io'.out # "none"
                 /\ last_autosave' = IF io'.out = "ok" THEN now ELSE last_autosave
            ELSE /\ io' = NoIo
                 /\ file' = file /\ tmpfile' = tmpfile
                 /\ last_autosave' = last_autosave
       /\ (PassStep /\ io.op = "autosave" /\ io.out # "ok") =>
            now' - last_autosave' >= args.autosave]_vars

C18_Witness ==
    /\ pc = "input"
    /\ now >= AutosaveTicks + MaxStep
    /\ last_autosave = 0
    /\ io = Io("autosave", "replace_error")
    /\ last_action = Action("Autosave failed", "")

(* C19: when the records of a pass that pass the filters carry an untracked *)
(* key more than once, the pass creates one session for the key, first and  *)
(* last seen now, with the state and the timeout of the last of these       *)
(* records, and the run and lifetime counters of its port grow by the       *)
(* number of untracked keys on the port (1 when the key is the only one),   *)
(* not by the number of records.                                            *)
KeptRows == Kept(ct_rows', watched_ports', hide_private, hide_admin, mode)
Repeated(k) == Cardinality({i \in DOMAIN KeptRows : FlowKey(KeptRows[i]) = k}) >= 2
NewKeysOn(p) == {k \in KeysOf(KeptRows) : k[4] = p /\ k \notin SessionKeys(sessions)}
C19_OncePerKey ==
    [][PassStep =>
        \A k \in KeysOf(KeptRows) :
            (Repeated(k) /\ k \notin SessionKeys(sessions)) =>
                /\ Cardinality({i \in DOMAIN sessions' : sessions'[i].key = k}) = 1
                /\ SessionOf(sessions', k) = Session(LastOf(KeptRows, k), now')
                /\ DictGet(port_hits_run', IntKey(k[4]), 0)
                       = DictGet(port_hits_run, IntKey(k[4]), 0)
                            + Cardinality(NewKeysOn(k[4]))
                /\ DictGet(Lph(stats'), StrOf(k[4]), 0)
                       = DictGet(Lph(stats), StrOf(k[4]), 0)
                            + Cardinality(NewKeysOn(k[4]))]_vars

C19_Witness ==
    /\ pc = "autosave"
    /\ ct_rows = <<Row(PUB, 4444, 22, "ESTABLISHED", 300), Row(PUB, 4444, 22, "TIME_WAIT", 60)>>
    /\ Len(sessions) = 1
    /\ sessions[1].state = "TIME_WAIT" /\ sessions[1].timeout_s = 60
    /\ sessions[1].first_seen = now
    /\ port_hits_run = (IntKey(22) :> 1)
    /\ Lph(stats) = (StrOf(22) :> 1)

(* C20: in every step a session that stays in the store keeps its key, its  *)
(* four endpoint fields and first_seen; a pass that observes it sets state  *)
(* and timeout_s from the last record of its key and last_seen to now and   *)
(* changes nothing else, and every other step leaves it as it was.          *)
C20_IdentityKept ==
    [][\A i \in DOMAIN sessions :
        LET s == sessions[i] IN
        s.key \in SessionKeys(sessions') =>
            LET s2 == SessionOf(sessions', s.key) IN
            /\ s2.key = s.key /\ s2.first_seen = s.first_seen
            /\ s2.src_ip = s.src_ip /\ s2.src_port = s.src_port
            /\ s2.dst_ip = s.dst_ip /\ s2.dst_port = s.dst_port
            /\ IF PassStep /\ s.key \in KeysOf(KeptRows)
               THEN s2 = [s EXCEPT !.state = LastOf(KeptRows, s.key).state,
                                   !.timeout_s = LastOf(KeptRows, s.key).timeout,
                                   !.last_seen = now']
               ELSE s2 = s]_vars

C20_Witness ==
    /\ pc = "autosave"
    /\ ct_rows = <<Row(PUB, 4444, 22, "TIME_WAIT", 60)>>
    /\ \E i \in DOMAIN sessions :
        /\ sessions[i].dst_port = 22
        /\ sessions[i].state = "TIME_WAIT"
        /\ sessions[i].first_seen = 1
        /\ sessions[i].last_seen = now
        /\ now >= 3
    /\ \E i \in DOMAIN sessions :
        /\ sessions[i].dst_port = 80
        /\ sessions[i].last_seen < now

(* C21: in every pass the run counter and the lifetime counter of a port    *)
(* grow by the number of sessions the pass created on the port; a step that *)
(* writes the stats file writes the document and its lifetime counters, and *)
(* nothing of port_hits_run.                                                *)
CreatedOn(p) ==
    {i \in DOMAIN sessions' :
        sessions'[i].dst_port = p /\ sessions'[i].first_seen = now'}
C21_BothCounters ==
    [][/\ PassStep =>
            \A p \in {22, 80} :
                /\ DictGet(port_hits_run', IntKey(p), 0)
                       - DictGet(port_hits_run, IntKey(p), 0) = Cardinality(CreatedOn(p))
                /\ DictGet(Lph(stats'), StrOf(p), 0)
                       - DictGet(Lph(stats), StrOf(p), 0) = Cardinality(CreatedOn(p))
       /\ file' # file =>
            /\ DOMAIN file'.body \subseteq Schema
            /\ file'.body.lifetime_port_hits = Lph(stats)
            /\ \A k \in DOMAIN port_hits_run : k \notin DOMAIN file'.body.lifetime_port_hits]_vars

C21_Witness ==
    /\ pc = "done"
    /\ io = Io("final", "ok")
    /\ port_hits_run = (IntKey(22) :> 1) @@ (IntKey(80) :> 2)
    /\ file.body.lifetime_port_hits = (StrOf(22) :> 4) @@ (StrOf(80) :> 2)

(* C22: a pass whose records do not carry the key of a tracked session,     *)
(* less than grace after the session was last seen, leaves the session in   *)
(* the store with every field as it was, once, and produces no ended        *)
(* record for it.                                                           *)
C22_MissingWithinGrace ==
    [][PassStep =>
        \A i \in DOMAIN sessions :
            LET s == sessions[i] IN
            (s.key \notin KeysOf(KeptRows) /\ now' - s.last_seen < args.grace) =>
                /\ Cardinality({j \in DOMAIN sessions' : sessions'[j].key = s.key}) = 1
                /\ SessionOf(sessions', s.key) = s
                /\ \A j \in DOMAIN ended' : ended'[j].key # s.key
                /\ \A x \in Range(Hist(stats')) \ Range(Hist(stats)) :
                    <<x.src, x.sport, x.dst, x.dport>> # s.key]_vars

C22_Witness ==
    /\ pc = "autosave"
    /\ ct_rows = <<Row(PUB, 4444, 80, "ESTABLISHED", 300)>>
    /\ \E i \in DOMAIN sessions :
        /\ sessions[i].dst_port = 22
        /\ sessions[i].state = "TIME_WAIT"
        /\ sessions[i].last_seen = now - 1
        /\ now - sessions[i].first_seen >= args.grace

(* C23: a session finalized in a pass is gone from the store, and at most   *)
(* one record of that pass carries its endpoints; that record has the       *)
(* session's endpoints and last state, the whole seconds between first_seen *)
(* and last_seen (never negative) as duration_s and the label mapped to the *)
(* port in that pass, or "unmapped"; the record is in the archive whenever  *)
(* the archive has room for all records of the pass.                        *)
RecordsOf(h, key, t) ==
    {j \in DOMAIN h : h[j].ended_ts = t /\ <<h[j].src, h[j].sport, h[j].dst, h[j].dport>> = key}
C23_EndedRecord ==
    [][PassStep =>
        \A i \in DOMAIN ended' :
            LET s == ended'[i]
                mine == RecordsOf(Hist(stats'), s.key, now')
            IN  /\ \E k \in DOMAIN sessions : sessions[k] = s
                /\ \A k \in DOMAIN sessions' : sessions'[k].key # s.key
                /\ Cardinality({k \in DOMAIN ended' : ended'[k].key = s.key}) = 1
                /\ Cardinality(mine) <= 1
                /\ Len(Hist(stats)) + Len(ended') <= args.history_n => Cardinality(mine) = 1
                /\ \A j \in mine :
                    LET x == Hist(stats')[j] IN
                    /\ <<x.src, x.sport, x.dst, x.dport>> =
                           <<s.src_ip, s.src_port, s.dst_ip, s.dst_port>>
                    /\ x.state = s.state
                    /\ x.duration_s >= 0
                    /\ x.duration_s * TicksPerSec <= s.last_seen - s.first_seen
                    /\ s.last_seen - s.first_seen < (x.duration_s + 1) * TicksPerSec
                    /\ x.container = IF s.dst_port \in DOMAIN port_map'
                                     THEN port_map'[s.dst_port] ELSE "unmapped"]_vars

C23_Witness ==
    /\ pc = "autosave"
    /\ \E i \in DOMAIN ended, j \in DOMAIN ended :
        /\ ended[i].dst_port = 80 /\ ended[i].last_seen - ended[i].first_seen = 1
        /\ ended[j].dst_port = 22 /\ ended[j].last_seen - ended[j].first_seen = 2
        /\ \E a \in RecordsOf(Hist(stats), ended[i].key, now) :
            Hist(stats)[a].duration_s = 0 /\ Hist(stats)[a].container = "unmapped"
        /\ \E b \in RecordsOf(Hist(stats), ended[j].key, now) :
            Hist(stats)[b].duration_s = 1 /\ Hist(stats)[b].container = "cowrie"

(* C24: update_sessions applied a second time to the state it left, with    *)
(* the same watched ports, records, toggles and now, leaves the session     *)
(* store, the run and lifetime counters and the archive as they are.        *)
SecondPass ==
    update_sessions(sessions', port_hits_run', stats', port_map', ct_rows',
                    watched_ports', hide_private, hide_admin, mode, now', args)
C24_Idempotent ==
    [][PassStep =>
        /\ SecondPass.sessions = sessions'
        /\ SecondPass.run = port_hits_run'
        /\ Lph(SecondPass.stats) = Lph(stats')
        /\ Hist(SecondPass.stats) = Hist(stats')]_vars

(* C25: whatever the step (pass, reset, save, start), a record of the       *)
(* archive that was in the archive before the step, told by its end time    *)
(* and endpoints, has every field as before; the records a save writes are  *)
(* records of the archive, and the records a start loads are the records    *)
(* of the file.                                                             *)
RecordId(x) == <<x.ended_ts, x.src, x.sport, x.dst, x.dport>>
SameOrNew(after, before) ==
    \A j \in DOMAIN after :
        (\E i \in DOMAIN before : RecordId(before[i]) = RecordId(after[j])) =>
            \E i \in DOMAIN before : before[i] = after[j]
C25_RecordsImmutable ==
    [][/\ pc # "boot" => SameOrNew(Hist(stats'), Hist(stats))
       /\ (file' # file /\ file'.kind = "object") =>
            /\ SameOrNew(file'.body.ended_history, Hist(stats))
            /\ file'.body.ended_history = Hist(stats')
       /\ (pc = "boot" /\ file.kind = "object") =>
            Hist(stats') = file.body.ended_history]_vars

C25_Witness ==
    /\ io = Io("reset", "ok")
    /\ file.kind = "object"
    /\ Len(file.body.ended_history) = 1
    /\ file.body.ended_history[1].ended_ts = now
    /\ file.body.ended_history[1].sport = 4444
    /\ Hist(stats) = file.body.ended_history

(* C26: the top-sessions view holds min(topn, number of active sessions)    *)
(* sessions of the store, none when topn <= 0, each once; no shown session  *)
(* that is not ESTABLISHED stands before an ESTABLISHED one, within each of *)
(* the two groups the ages do not increase, and no session left out would   *)
(* stand before a shown one.                                                *)
Est(s) == s.state = "ESTABLISHED"
AgeNow(s) == now - s.first_seen
StrictlyBefore(a, b) ==
    \/ Est(a) /\ ~Est(b)
    \/ Est(a) = Est(b) /\ AgeNow(a) > AgeNow(b)
C26_TopSessions ==
    LET top == view.sessions_top IN
    /\ Len(top) = IF args.topn <= 0 THEN 0
                  ELSE IF args.topn <= Len(sessions) THEN args.topn ELSE Len(sessions)
    /\ \A i \in DOMAIN top : \E k \in DOMAIN sessions : sessions[k] = top[i]
    /\ \A i, j \in DOMAIN top : i < j =>
        /\ top[i].key # top[j].key
        /\ ~StrictlyBefore(top[j], top[i])
    /\ \A k \in DOMAIN sessions :
        (\A i \in DOMAIN top : top[i] # sessions[k]) =>
            \A i \in DOMAIN top : ~StrictlyBefore(sessions[k], top[i])

C26_Witness ==
    /\ pc = "input"
    /\ args.topn = 2
    /\ Len(sessions) = 4
    /\ ~Est(sessions[1]) /\ Est(sessions[2]) /\ ~Est(sessions[3]) /\ Est(sessions[4])
    /\ view.sessions_top = <<sessions[2], sessions[4]>>

(* C27: the top-sources view holds min(topn, number of sources) groups,     *)
(* none when topn <= 0, each source once with its count and oldest age; the *)
(* counts do not increase down the view, among equal counts the oldest ages *)
(* do not increase, and no group left out would stand before a shown one.   *)
Sources == {sessions[k].src_ip : k \in DOMAIN sessions}
CountOf(ip) == Cardinality(From(ip))
OldestAge(ip) ==
    CHOOSE a \in {AgeNow(sessions[k]) : k \in From(ip)} :
        \A k \in From(ip) : AgeNow(sessions[k]) <= a
GroupBefore(a, b) ==
    \/ CountOf(a) > CountOf(b)
    \/ CountOf(a) = CountOf(b) /\ OldestAge(a) > OldestAge(b)
C27_TopSourcesOrder ==
    LET top == view.sources_top IN
    /\ Len(top) = IF args.topn <= 0 THEN 0
                  ELSE IF args.topn <= Cardinality(Sources) THEN args.topn
                  ELSE Cardinality(Sources)
    /\ \A i \in DOMAIN top :
        /\ top[i].ip \in Sources
        /\ top[i].active = CountOf(top[i].ip)
        /\ top[i].oldest_s = OldestAge(top[i].ip)
    /\ \A i, j \in DOMAIN top : i < j =>
        /\ top[i].ip # top[j].ip
        /\ ~GroupBefore(top[j].ip, top[i].ip)
    /\ \A ip \in Sources :
        (\A i \in DOMAIN top : top[i].ip # ip) =>
            \A i \in DOMAIN top : ~GroupBefore(ip, top[i].ip)

C27_Witness ==
    /\ pc = "input"
    /\ args.topn = 1
    /\ Sources = {PUB, PUB2}
    /\ sessions[1].src_ip = PUB2
    /\ CountOf(PUB) = 2 /\ CountOf(PUB2) = 1
    /\ Len(view.sources_top) = 1
    /\ view.sources_top[1].ip = PUB

(* C28: in every tick the store, the counters and the archive are what      *)
(* update_sessions left, the file is as before the tick, and compute_views  *)
(* called again on the state and the now of the tick returns the view the   *)
(* tick got.                                                                *)
FirstPass ==
    update_sessions(sessions, port_hits_run, stats, port_map', ct_rows',
                    watched_ports', hide_private, hide_admin, mode, now', args)
C29_ReappearanceContinues ==
    [][PassStep =>
        \A i \in DOMAIN sessions :
            LET s == sessions[i] IN
            (/\ s.key \notin seen_keys
             /\ s.key \in KeysOf(KeptRows)
             /\ now' - s.last_seen < args.grace) =>
                /\ Cardinality({j \in DOMAIN sessions' : sessions'[j].key = s.key}) = 1
                /\ SessionOf(sessions', s.key).first_seen = s.first_seen
                /\ SessionOf(sessions', s.key).last_seen = now'
                /\ s.first_seen < now'
                /\ DictGet(port_hits_run', IntKey(s.dst_port), 0)
                       = DictGet(port_hits_run, IntKey(s.dst_port), 0)
                             + Cardinality(CreatedOn(s.dst_port))
                /\ DictGet(Lph(stats'), StrOf(s.dst_port), 0)
                       = DictGet(Lph(stats), StrOf(s.dst_port), 0)
                             + Cardinality(CreatedOn(s.dst_port))
                /\ \A j \in DOMAIN ended' : ended'[j].key # s.key
                /\ RecordsOf(Hist(stats'), s.key, now') = {}]_vars

C29_Witness ==
    /\ pc = "autosave"
    /\ ended = <<>>
    /\ Durations(Hist(stats)) = <<3, 1>>
    /\ DictGet(port_hits_run, IntKey(22), 0) = 1
    /\ DictGet(Lph(stats), StrOf(22), 0) = 4
    /\ \E i, j \in DOMAIN sessions :
        /\ sessions[i].dst_port = 22 /\ sessions[j].dst_port = 80
        /\ sessions[j].last_seen = sessions[j].first_seen
        /\ sessions[i].first_seen < sessions[j].first_seen
        /\ sessions[j].first_seen < sessions[i].last_seen
        /\ sessions[i].last_seen = now

(* C30: after a pass, records of equal duration_s stand in the archive in   *)
(* the order of their insertion (the archive as it was, then the records    *)
(* of the pass), and of two such records the later one is never kept        *)
(* without the earlier one; so a pass that finds the archive full and       *)
(* sorted and ends only sessions no longer than its last record leaves the  *)
(* archive as it was.                                                       *)
Offered == Hist(stats) \o MapSeq(ended', LAMBDA s : EndedRecord(s, port_map', now'))
OfferedAt(x) == CHOOSE i \in DOMAIN Offered : Offered[i] = x
C30_TiesByInsertion ==
    [][PassStep =>
        LET after == Hist(stats') IN
        /\ \A a \in DOMAIN after : \E i \in DOMAIN Offered : Offered[i] = after[a]
        /\ \A a, b \in DOMAIN after :
            (a < b /\ after[a].duration_s = after[b].duration_s) =>
                OfferedAt(after[a]) < OfferedAt(after[b])
        /\ \A i, j \in DOMAIN Offered :
            (/\ i < j
             /\ Offered[i].duration_s = Offered[j].duration_s
             /\ \E b \in DOMAIN after : after[b] = Offered[j]) =>
                \E a \in DOMAIN after : after[a] = Offered[i]
        /\ (/\ args.history_n > 0
            /\ Len(Hist(stats)) = args.history_n
            /\ SortedDesc(Hist(stats))
            /\ \A k \in DOMAIN ended' :
                (ended'[k].last_seen - ended'[k].first_seen) \div TicksPerSec
                    <= Hist(stats)[Len(Hist(stats))].duration_s) =>
                Hist(stats') = Hist(stats)]_vars

C30_Witness ==
    /\ pc = "autosave"
    /\ Len(ended) = 1
    /\ args.history_n > 0
    /\ Len(Hist(stats)) = args.history_n
    /\ (ended[1].last_seen - ended[1].first_seen) \div TicksPerSec
           = Hist(stats)[Len(Hist(stats))].duration_s
    /\ RecordsOf(Hist(stats), ended[1].key, now) = {}
    /\ \A i \in DOMAIN Hist(stats) : Hist(stats)[i].ended_ts < now

(* C31: a tracked session whose key is in the records of the pass, but only *)
(* in records that a filter discards, is handled as a missing one: within   *)
(* grace it stays as it was, last_seen included, and from grace on it is    *)
(* ended in that pass.  A key that passes the filters again after its       *)
(* session was ended gets a new session with first_seen = now, and both     *)
(* counters of its port go up.                                              *)
FilteredOut(k) == k \in KeysOf(ct_rows') /\ k \notin PassingKeys
EndedBefore(k) ==
    \E i \in DOMAIN Hist(stats) :
        LET x == Hist(stats)[i] IN <<x.src, x.sport, x.dst, x.dport>> = k
NewPassingOn(p) == {k \in PassingKeys : k[4] = p /\ k \notin SessionKeys(sessions)}
C31_FilteredIsMissing ==
    [][PassStep =>
        /\ \A i \in DOMAIN sessions :
            LET s == sessions[i] IN
            FilteredOut(s.key) =>
                IF now' - s.last_seen < args.grace
                THEN /\ \E j \in DOMAIN sessions' : sessions'[j] = s
                     /\ \A j \in DOMAIN ended' : ended'[j].key # s.key
                ELSE /\ \A j \in DOMAIN sessions' : sessions'[j].key # s.key
                     /\ \E j \in DOMAIN ended' : ended'[j] = s
        /\ \A k \in PassingKeys :
            (k \notin SessionKeys(sessions) /\ EndedBefore(k)) =>
                /\ SessionOf(sessions', k).first_seen = now'
                /\ SessionOf(sessions', k).last_seen = now'
                /\ DictGet(port_hits_run', IntKey(k[4]), 0)
                       = DictGet(port_hits_run, IntKey(k[4]), 0)
                             + Cardinality(NewPassingOn(k[4]))
                /\ DictGet(Lph(stats'), StrOf(k[4]), 0)
                       = DictGet(Lph(stats), StrOf(k[4]), 0)
                             + Cardinality(NewPassingOn(k[4]))
                /\ DictGet(port_hits_run', IntKey(k[4]), 0) >= 2]_vars

C31_Witness ==
    /\ pc = "autosave"
    /\ mode = "EST"
    /\ Len(ended) = 1
    /\ ended[1].state = "TIME_WAIT"
    /\ ended[1].key \in {FlowKey(ct_rows[i]) : i \in DOMAIN ct_rows}
    /\ now - ended[1].last_seen >= args.grace
    /\ sessions = <<>>

(* C32: no step but the pass changes the store or the archive, so at the    *)
(* exit the archive is as the last pass left it; the step that leaves the   *)
(* loop and the final save keep every session in the store, and the file    *)
(* they write holds that archive and no record of a session still active.   *)
LeavesLoop == pc \in {"input", "loop", "final"} /\ pc' \in {"final", "done", "crashed"}
C32_ActiveNeverEnded ==
    [][/\ (pc # "boot" /\ ~PassStep) =>
            /\ sessions' = sessions
            /\ Hist(stats') = Hist(stats)
       /\ (LeavesLoop /\ file' # file) =>
            /\ file'.kind = "object"
            /\ file'.body.ended_history = Hist(stats)
            /\ \A i \in DOMAIN sessions, j \in DOMAIN file'.body.ended_history :
                LET x == file'.body.ended_history[j] IN
                <<x.src, x.sport, x.dst, x.dport>> = sessions[i].key =>
                    x.ended_ts < sessions[i].first_seen]_vars

C32_Witness ==
    /\ pc = "done"
    /\ io = Io("final", "ok")
    /\ stop
    /\ Len(sessions) = 1
    /\ now - sessions[1].first_seen >= args.grace
    /\ sessions[1].last_seen = now
    /\ file.body.ended_history = <<>>
    /\ Hist(stats) = <<>>

(* C33: the step that sets the stop flag, wherever in the tick it comes,    *)
(* changes nothing else: position in the loop, store, counters, archive,    *)
(* document and file are as before; and the store and the archive change    *)
(* only in the pass of the loop.                                            *)
C33_SignalOnlyStops ==
    [][/\ stop' # stop =>
            /\ stop'
            /\ pc' = pc
            /\ sessions' = sessions
            /\ port_hits_run' = port_hits_run
            /\ stats' = stats
            /\ file' = file /\ tmpfile' = tmpfile
            /\ now' = now /\ last_autosave' = last_autosave
       /\ (pc # "boot" /\ (sessions' # sessions \/ Hist(stats') # Hist(stats))) =>
            /\ pc = "loop" /\ pc' = "autosave"
            /\ ~stop /\ ~stop']_vars

C33_Witness ==
    /\ stop
    /\ pc = "autosave"
    /\ Len(sessions) = 1
    /\ DictGet(port_hits_run, IntKey(22), 0) = 1
    /\ DictGet(Lph(stats), StrOf(22), 0) = 4
    /\ Durations(Hist(stats)) = <<3, 1>>
    /\ file = FileOf(OldDoc)

(* C34: a pass in which no session ended leaves the archive sorted by       *)
(* duration_s, longest first, and cut to history_n: it holds the first      *)
(* history_n records of the sorted archive it found (all of them when       *)
(* there are fewer), also when the archive came unsorted or too long from   *)
(* the file.                                                                *)
C34_SortedAndCutEveryPass ==
    [][(PassStep /\ ended' = <<>>) =>
        /\ SortedDesc(Hist(stats'))
        /\ Len(Hist(stats')) =
               IF Len(Hist(stats)) <= Max(0, args.history_n)
               THEN Len(Hist(stats)) ELSE Max(0, args.history_n)
        /\ Hist(stats') = SubSeq(SortDesc(Hist(stats)), 1, Len(Hist(stats')))]_vars

====
